---------------------------- MODULE Spec2Model ----------------------------
(***************************************************************************)
(* Model of generate_glb.py: the batch driver (main, process_folder,       *)
(* process_glb_upscaling) and the reconciliation loop (process_image).     *)
(*                                                                         *)
(* File names are sequences of one-character strings, so that the naming   *)
(* scheme (the f-string of process_image), its parser (the regular         *)
(* expression of process_glb_upscaling) and the existence oracle           *)
(* (glob.glob) are computed on the characters, as the code computes them.  *)
(***************************************************************************)
EXTENDS Integers, Sequences, FiniteSets, TLC

\* An optional int (config.get("seed")): None is the empty tuple, the int n is <<n>>.
None == << >>

Some(n) == <<n>>

\* The line feed character: the one character the regular expression's '.'
\* does not match (re.compile without re.DOTALL).
LF == "\n"

-----------------------------------------------------------------------------
(* Strings *)

Digits == <<"0", "1", "2", "3", "4", "5", "6", "7", "8", "9">>

IsDigit(c) == \E i \in 1..10 : Digits[i] = c

DigitVal(c) == (CHOOSE i \in 1..10 : Digits[i] = c) - 1

\* str(n) of a non-negative int, as the f-string formats it: decimal, no padding.
RECURSIVE IntToStr(_)
IntToStr(n) ==
    IF n < 10 THEN <<Digits[n + 1]>>
    ELSE IntToStr(n \div 10) \o <<Digits[(n % 10) + 1]>>

\* int(s) of a non-empty string of ASCII digits (leading zeros are dropped).
RECURSIVE StrToInt(_)
StrToInt(s) ==
    IF Len(s) = 0 THEN 0
    ELSE 10 * StrToInt(SubSeq(s, 1, Len(s) - 1)) + DigitVal(s[Len(s)])

AllDigits(s) == Len(s) > 0 /\ \A i \in 1..Len(s) : IsDigit(s[i])

\* str.endswith
EndsWith(s, suf) ==
    /\ Len(s) >= Len(suf)
    /\ SubSeq(s, Len(s) - Len(suf) + 1, Len(s)) = suf

\* str.lower on the characters of the model's file names.
LowerChar(c) ==
    CASE c = "P" -> "p"
      [] c = "N" -> "n"
      [] c = "G" -> "g"
      [] OTHER -> c

Lower(s) == [i \in 1..Len(s) |-> LowerChar(s[i])]

\* The code point of a character, for the order list.sort() puts strings in.
Ord(c) ==
    CASE c = LF -> 10
      [] c = "." -> 46
      [] IsDigit(c) -> 48 + DigitVal(c)
      [] c = "G" -> 71
      [] c = "N" -> 78
      [] c = "P" -> 80
      [] c = "[" -> 91
      [] c = "]" -> 93
      [] c = "_" -> 95
      [] c = "a" -> 97
      [] c = "b" -> 98
      [] c = "f" -> 102
      [] c = "g" -> 103
      [] c = "i" -> 105
      [] c = "j" -> 106
      [] c = "l" -> 108
      [] c = "n" -> 110
      [] c = "p" -> 112
      [] c = "t" -> 116
      [] c = "x" -> 120
      [] OTHER -> 127

\* s < t in Python's string order.
RECURSIVE StrLess(_, _)
StrLess(s, t) ==
    IF Len(t) = 0 THEN FALSE
    ELSE IF Len(s) = 0 THEN TRUE
    ELSE IF Ord(Head(s)) # Ord(Head(t)) THEN Ord(Head(s)) < Ord(Head(t))
    ELSE StrLess(Tail(s), Tail(t))

\* The index of the last occurrence of c in s, 0 when there is none (str.rfind + 1).
RECURSIVE LastIndexUpTo(_, _, _)
LastIndexUpTo(s, c, i) ==
    IF i = 0 THEN 0
    ELSE IF s[i] = c THEN i
    ELSE LastIndexUpTo(s, c, i - 1)

LastIndexOf(s, c) == LastIndexUpTo(s, c, Len(s))

\* os.path.splitext of a file name without directory part: the extension starts
\* at the last dot, unless only dots precede it.
SplitExt(name) ==
    LET i == LastIndexOf(name, ".")
    IN  IF i > 0 /\ \E j \in 1..(i - 1) : name[j] # "."
        THEN [root |-> SubSeq(name, 1, i - 1), ext |-> SubSeq(name, i, Len(name))]
        ELSE [root |-> name, ext |-> <<>>]

-----------------------------------------------------------------------------
(* Naming scheme: the artifact name, the glob pattern and the parser *)

GlbExt == <<".", "g", "l", "b">>

\* A ParameterSet is a record [octree, steps, guidance, face] of integers.
\* The common prefix of the artifact name and of the glob pattern:
\* f"{base_name}_{octree}_{num_inference_steps}_{guidance_scale}_{face_count}_"
NamePrefix(base_name, P) ==
    base_name \o <<"_">> \o IntToStr(P.octree) \o <<"_">> \o IntToStr(P.steps)
        \o <<"_">> \o IntToStr(P.guidance) \o <<"_">> \o IntToStr(P.face) \o <<"_">>

\* f"{base_name}_{octree}_{num_inference_steps}_{guidance_scale}_{face_count}_{seed_current}.glb"
BuildName(base_name, P, seed) == NamePrefix(base_name, P) \o IntToStr(seed) \o GlbExt

\* f"{base_name}_{octree}_{num_inference_steps}_{guidance_scale}_{face_count}_*.glb"
BuildPattern(base_name, P) == NamePrefix(base_name, P) \o <<"*">> \o GlbExt

\* The regular expression's tail _([0-9]+) taken k times from the right of s:
\* <<rest, field_1, ..., field_k>>, or << >> when s does not end in k such fields.
\* A field holds no underscore, so the k fields are cut at the last k underscores.
RECURSIVE PeelFields(_, _)
PeelFields(s, k) ==
    IF k = 0 THEN <<s>>
    ELSE LET i == LastIndexOf(s, "_")
             fld == SubSeq(s, i + 1, Len(s))
         IN  IF i = 0 \/ ~AllDigits(fld) THEN << >>
             ELSE LET r == PeelFields(SubSeq(s, 1, i - 1), k - 1)
                  IN  IF r = << >> THEN << >> ELSE Append(r, fld)

\* pattern.match(file).groups() for
\*   ^(.*)_([0-9]+)_([0-9]+)_([0-9]+)_([0-9]+)_([0-9]+)\.glb$
\* << >> stands for "no match". '$' also matches before one final line feed;
\* '.' matches every character but the line feed.
RegexGroups(file) ==
    LET body == IF EndsWith(file, GlbExt) THEN SubSeq(file, 1, Len(file) - 4)
                ELSE IF EndsWith(file, GlbExt \o <<LF>>) THEN SubSeq(file, 1, Len(file) - 5)
                ELSE << >>
        g == IF EndsWith(file, GlbExt) \/ EndsWith(file, GlbExt \o <<LF>>)
             THEN PeelFields(body, 5) ELSE << >>
    IN  IF g # << >> /\ \A i \in 1..Len(g[1]) : g[1][i] # LF THEN g ELSE << >>

\* The closing bracket of the character class that opens at pat[1] = "[", as
\* fnmatch.translate finds it; 0 when there is none (the "[" is then a literal).
ClassEnd(pat) ==
    LET j0 == IF Len(pat) >= 2 /\ pat[2] = "!" THEN 3 ELSE 2
        j1 == IF Len(pat) >= j0 /\ pat[j0] = "]" THEN j0 + 1 ELSE j0
    IN  IF \E j \in j1..Len(pat) : pat[j] = "]"
        THEN CHOOSE j \in j1..Len(pat) : pat[j] = "]" /\ \A k \in j1..(j - 1) : pat[k] # "]"
        ELSE 0

\* fnmatch.fnmatchcase(s, pat): "*" any run of characters (line feeds too), "?"
\* any one character, "[seq]" one character of seq ("[!seq]" one not of it).
\* Ranges (a-z) are not modelled: no name of the model holds a "-".
RECURSIVE Fnmatch(_, _)
Fnmatch(s, pat) ==
    IF Len(pat) = 0 THEN Len(s) = 0
    ELSE IF Head(pat) = "*"
         THEN Fnmatch(s, Tail(pat)) \/ (Len(s) > 0 /\ Fnmatch(Tail(s), pat))
    ELSE IF Head(pat) = "?"
         THEN Len(s) > 0 /\ Fnmatch(Tail(s), Tail(pat))
    ELSE IF Head(pat) = "[" /\ ClassEnd(pat) > 0
         THEN LET e == ClassEnd(pat)
                  neg == pat[2] = "!"
                  members == {pat[k] : k \in (IF neg THEN 3 ELSE 2)..(e - 1)}
              IN  /\ Len(s) > 0
                  /\ (Head(s) \in members) # neg
                  /\ Fnmatch(Tail(s), SubSeq(pat, e + 1, Len(pat)))
    ELSE Len(s) > 0 /\ Head(s) = Head(pat) /\ Fnmatch(Tail(s), Tail(pat))

\* glob.glob(os.path.join(output, pat)): the entries of the directory the
\* pattern matches; a name with a leading dot only when the pattern has one.
Glob(dir, pat) ==
    {f \in dir : /\ (Head(f) = "." => Head(pat) = ".")
                 /\ Fnmatch(f, pat)}

-----------------------------------------------------------------------------
(* The inputs the model draws from *)

\* Source base names: plain, with an underscore and a digit group, with a glob
\* character class, with a line feed.
BaseA == <<"a">>
BaseA9 == <<"a", "_", "9">>
BaseCls == <<"[", "a", "]">>
BaseLF == <<"a", LF, "b">>

PS(o, s, g, f) == [octree |-> o, steps |-> s, guidance |-> g, face |-> f]

\* The configured (target) ParameterSets.
TargetPs == {PS(10, 10, 10, 9), PS(10, 9, 9, 10), PS(9, 11, 10, 10), PS(10, 10, 11, 9)}

\* The entries the input folder may hold: a name and what the name is
\* ("file", "dir", or "unreadable": a file that open() fails on).
PngA == [name |-> BaseA \o <<".", "p", "n", "g">>, kind |-> "file"]
PngA9 == [name |-> BaseA9 \o <<".", "P", "N", "G">>, kind |-> "file"]
PngCls == [name |-> BaseCls \o <<".", "p", "n", "g">>, kind |-> "file"]
PngLF == [name |-> BaseLF \o <<".", "p", "n", "g">>, kind |-> "file"]
GifA == [name |-> BaseA \o <<".", "g", "i", "f">>, kind |-> "file"]
DirA == [name |-> BaseA \o <<".", "j", "p", "g">>, kind |-> "dir"]
LockedA9 == [name |-> BaseA9 \o <<".", "j", "p", "g">>, kind |-> "unreadable"]

InFiles == {PngA, PngA9, PngCls, PngLF, GifA, DirA, LockedA9}

\* The input folders a run may start from, as os.listdir yields their entries:
\* empty, one entry, two images, and an image and a folder of one base name in
\* both orders.
InListings ==
    { << >>, <<PngA>>, <<PngCls>>, <<PngLF>>, <<GifA>>, <<LockedA9>>,
      <<PngA, PngA9>>, <<PngA, DirA>>, <<DirA, PngA>> }

\* The files the output folder may hold before the run: artifacts of earlier
\* runs (one with a zero-padded seed), and names that are no artifact names.
OutFiles ==
    { BuildName(BaseA, PS(10, 10, 10, 9), 3),
      BuildName(BaseA, PS(9, 10, 10, 9), 3),
      BuildName(BaseA9, PS(11, 10, 10, 9), 3),
      BuildName(BaseCls, PS(9, 10, 10, 9), 3),
      BuildName(BaseLF, PS(9, 10, 10, 9), 3),
      NamePrefix(BaseA, PS(9, 10, 10, 9)) \o <<"0", "0", "7">> \o GlbExt,
      NamePrefix(BaseA, PS(10, 10, 10, 9)) \o <<"x">> \o GlbExt,
      <<"a", ".", "t", "x", "t">> }

\* The ParameterSets and the output files process_image is called with when it
\* is checked alone: two files match each pattern of base name "a".
PITargetPs == {PS(10, 10, 10, 9), PS(9, 10, 10, 9)}

PIOutFiles ==
    { BuildName(BaseA, PS(10, 10, 10, 9), 3),
      NamePrefix(BaseA, PS(10, 10, 10, 9)) \o <<"x">> \o GlbExt,
      BuildName(BaseA, PS(9, 10, 10, 9), 3),
      NamePrefix(BaseA, PS(9, 10, 10, 9)) \o <<"0", "0", "7">> \o GlbExt,
      BuildName(BaseCls, PS(9, 10, 10, 9), 3),
      BuildName(BaseLF, PS(9, 10, 10, 9), 3) }

\* The image process_image is called with, and the input folder: the image as
\* a file, a folder, an unreadable file, or missing.
PIImages ==
    { <<PngA, {PngA}>>, <<PngA9, {PngA9}>>, <<PngCls, {PngCls}>>, <<PngLF, {PngLF}>>,
      <<DirA, {DirA}>>, <<LockedA9, {LockedA9}>>, <<PngA, {}>> }

\* Bounds on the output folder's initial contents and on the configured iterations.
MaxOutFiles == 2
MaxIter == 2

\* The fixed seeds a configuration may name.
ConfigSeeds == {None, Some(0), Some(3)}

\* random.randint(RandLo, RandHi) returns an int of RandLo..RandHi, both ends
\* included; the model draws from the two ends and one seed in between.
RandLo == 0
RandHi == 10000000
SeedDraws == {s \in {RandLo, 3, RandHi} : RandLo <= s /\ s <= RandHi}

\* The cap on the log-label counter of process_image, which a write that keeps
\* failing would otherwise raise without end.
MaxCount == 1

-----------------------------------------------------------------------------
(* State *)

VARIABLES
    pc,           \* the statement the program is at
    config,       \* the configuration dictionary (main mutates it)
    indir,        \* the entries of the input folder
    outdir,       \* the names of the files of the output folder
    image_files,  \* process_folder: the images still to process, sorted
    walk,         \* process_glb_upscaling: the files os.walk listed, still to visit
    file,         \* process_glb_upscaling: the file being upscaled
    pi,           \* the frame of process_image: its arguments and locals
    calls,        \* history: the process_image invocations, in order
    requests,     \* history: the POST requests issued
    written,      \* history: the files opened for writing
    decisions,    \* history: what process_glb_upscaling decided for each file
    listing,      \* the entries of the input folder in the order os.listdir yields them
    run           \* the run under way: its number, the configuration load_config
                  \* returned, and the output folder it started from

vars == <<pc, config, indir, outdir, image_files, walk, file, pi, calls,
          requests, written, decisions, listing, run>>

\* No process_image call is active.
NoFrame ==
    [image_path |-> << >>, iterations |-> 0, seed |-> None, P |-> PS(0, 0, 0, 0),
     upscale |-> FALSE, base_name |-> << >>, count |-> 0, seed_current |-> None,
     out_filename |-> << >>, ret |-> "done"]

\* The frame at the call of process_image, before its first statement.
Frame(image_path, iterations, seed, P, upscale, ret) ==
    [NoFrame EXCEPT !.image_path = image_path, !.iterations = iterations,
                    !.seed = seed, !.P = P, !.upscale = upscale, !.ret = ret]

\* The record of an invocation in the history.
CallRec(image_path, iterations, seed, P, upscale, from) ==
    [image_path |-> image_path, iterations |-> iterations, seed |-> seed, P |-> P,
     upscale |-> upscale, file |-> from, entry |-> "called"]

ConfigP == PS(config.octree_resolution, config.num_inference_steps,
              config.guidance_scale, config.face_count)

\* The output folders a run may start from.
OutDirs == {d \in SUBSET OutFiles : Cardinality(d) <= MaxOutFiles}

PIOutDirs == {d \in SUBSET PIOutFiles : Cardinality(d) <= MaxOutFiles}

\* The orders os.listdir may yield the entries of a folder in: any order, the
\* same at every call while the folder is left as it is.
Listings(dir) ==
    {l \in [1..Cardinality(dir) -> dir] : {l[i] : i \in 1..Cardinality(dir)} = dir}

\* What is kept of a run: its number, the configuration it loaded, the output
\* folder it found, and the names of the files the run before it wrote.
RunRec(number, loaded, found, before) ==
    [number |-> number, config |-> loaded, outdir |-> found, before |-> before]

-----------------------------------------------------------------------------
(* Python call binding *)

\* def process_image(...): the parameters, none with a default value.
ProcessImageParams ==
    <<"image_path", "iterations", "output", "seed", "octree", "num_inference_steps",
      "face_count", "guidance_scale", "endpoint_url", "upscale">>

\* A call with npos positional arguments and the keyword arguments kws binds
\* when every parameter gets exactly one argument; otherwise it raises TypeError.
Binds(npos, kws) ==
    /\ npos <= Len(ProcessImageParams)
    /\ kws \subseteq {ProcessImageParams[i] : i \in 1..Len(ProcessImageParams)}
    /\ \A i \in 1..Len(ProcessImageParams) : (i <= npos) # (ProcessImageParams[i] \in kws)

\* The call of process_folder: nine positional arguments.
FolderCallBinds == Binds(9, {})

\* The call of process_glb_upscaling: the path, then nine keyword arguments.
UpscaleCallBinds ==
    Binds(1, {"iterations", "output", "seed", "octree", "num_inference_steps",
              "face_count", "guidance_scale", "endpoint_url", "upscale"})

-----------------------------------------------------------------------------
(* process_image: the reconciliation loop *)

\* os.path.isfile(image_path)
IsFile(dir, path) == \E e \in dir : e.name = path /\ e.kind # "dir"

\* open(image_path, "rb") and read() succeed.
Readable(dir, path) == \E e \in dir : e.name = path /\ e.kind = "file"

\* Mutant of Matches: the pattern is looked up as a file name, "*" taken literally.
MatchesLiteral(dir, base_name, P) ==
    Cardinality({f \in dir : f = BuildPattern(base_name, P)})

\* len(glob.glob(pattern)) for the pattern of (base_name, P).
Matches(dir, base_name, P) == Cardinality(Glob(dir, BuildPattern(base_name, P)))

\* Mutant of EnoughOnEntry: the comparison is strict.
EnoughOnEntryStrict(matches, iterations) == matches > iterations

\* if matches >= iterations: return
EnoughOnEntry(matches, iterations) == matches >= iterations

\* condition(): in upscale mode no file matches the pattern, otherwise fewer
\* than iterations files match it.
Condition(upscale, n, iterations) == IF upscale THEN n = 0 ELSE n < iterations

\* Mutant of SeedChoices: the seed argument is ignored, a seed is always drawn.
SeedChoicesRandom(seed) == SeedDraws

\* Mutant of SeedChoices: the draw may exceed the upper end by one.
SeedChoicesBeyond(seed) == IF seed = None THEN SeedDraws \cup {RandHi + 1} ELSE {seed[1]}

\* The values seed_current may take: a draw of random.randint, or the fixed seed.
SeedChoices(seed) == IF seed = None THEN SeedDraws ELSE {seed[1]}

\* Mutant of Exists: the collision check never finds the file.
ExistsNever(dir, name) == FALSE

\* os.path.exists(out_filename)
Exists(dir, name) == name \in dir

\* str(seed) in the f-string that first sets out_filename.
SeedStr(seed) == IF seed = None THEN <<"N", "o", "n", "e">> ELSE IntToStr(seed[1])

\* return: back to the caller's loop.
Return ==
    /\ pc' = pi.ret
    /\ pi' = NoFrame

\* The outcome of the entry checks, noted in the history of the invocation.
Entered(what) == calls' = [calls EXCEPT ![Len(calls)].entry = what]

\* From the first statement to the first evaluation of the loop condition.
PI_Enter ==
    /\ pc = "pi_enter"
    /\ IF ~IsFile(indir, pi.image_path)
       THEN Return /\ Entered("not_a_file")
       ELSE IF ~Readable(indir, pi.image_path)
       THEN Return /\ Entered("read_error")
       ELSE LET base_name == SplitExt(pi.image_path).root
                matches == Matches(outdir, base_name, pi.P)
            IN  IF EnoughOnEntry(matches, pi.iterations)
                THEN Return /\ Entered("enough")
                ELSE /\ pi' = [pi EXCEPT !.base_name = base_name,
                                         !.count = 0,
                                         !.out_filename =
                                             NamePrefix(base_name, pi.P)
                                                 \o SeedStr(pi.seed) \o GlbExt]
                     /\ pc' = "pi_cond"
                     /\ Entered("loop")
    /\ UNCHANGED <<config, indir, outdir, image_files, walk, file, requests, written,
                   decisions, listing, run>>

\* while condition():
PI_Cond ==
    /\ pc = "pi_cond"
    /\ IF Condition(pi.upscale, Matches(outdir, pi.base_name, pi.P), pi.iterations)
       THEN pc' = "pi_attempt" /\ UNCHANGED pi
       ELSE Return
    /\ UNCHANGED <<config, indir, outdir, image_files, walk, file, calls, requests,
                   written, decisions, listing, run>>

\* Mutant of AfterExistsCheck: an existing file ends the call instead of the attempt.
AfterExistsCheckLeaves(exists) == IF exists THEN pi.ret ELSE "pi_request"

\* if os.path.exists(out_filename): print "skipping" and continue; else go on
\* to the request.
AfterExistsCheck(exists) == IF exists THEN "pi_cond" ELSE "pi_request"

\* The seed, the request parameters, the candidate name and the collision check.
PI_Attempt ==
    /\ pc = "pi_attempt"
    /\ \E s \in SeedChoices(pi.seed) :
          LET name == BuildName(pi.base_name, pi.P, s)
          IN  /\ pi' = [pi EXCEPT !.seed_current = Some(s), !.out_filename = name]
              /\ pc' = AfterExistsCheck(Exists(outdir, name))
    /\ UNCHANGED <<config, indir, outdir, image_files, walk, file, calls, requests,
                   written, decisions, listing, run>>

\* Mutant of RequestFailed: the handler leaves the loop instead of continuing it.
RequestFailedLeaves == Return

\* except requests.exceptions.RequestException: the error is printed, then continue.
RequestFailed ==
    /\ pc' = "pi_cond"
    /\ UNCHANGED pi

\* requests.post and raise_for_status: a response, or a RequestException.
PI_Request ==
    /\ pc = "pi_request"
    /\ requests' = requests \cup
           {[call |-> Len(calls), P |-> pi.P, seed |-> pi.seed_current[1]]}
    /\ \/ pc' = "pi_write" /\ UNCHANGED pi
       \/ RequestFailed
    /\ UNCHANGED <<config, indir, outdir, image_files, walk, file, calls, written,
                   decisions, listing, run>>

\* The file opened for writing, as the history notes it.
WriteRec(complete) ==
    [call |-> Len(calls), name |-> pi.out_filename,
     existed |-> pi.out_filename \in outdir, complete |-> complete]

\* count += 1, the last statement of the loop body; then the condition again.
Counted ==
    /\ pi' = [pi EXCEPT !.count = pi.count + 1]
    /\ pc' = "pi_cond"

\* Mutant of WriteFailed: the exception leaves process_image.
WriteFailedLeaves == Return

\* except Exception: the error is printed; the loop body goes on to count += 1.
WriteFailed == Counted

\* open(out_filename, "wb") and write: the file is written; or write() fails and
\* leaves what open() created; or open() fails. Then count += 1 in every case.
PI_Write ==
    /\ pc = "pi_write"
    /\ \/ /\ outdir' = outdir \cup {pi.out_filename}
          /\ written' = written \cup {WriteRec(TRUE)}
          /\ Counted
       \/ /\ outdir' = outdir \cup {pi.out_filename}
          /\ written' = written \cup {WriteRec(FALSE)}
          /\ WriteFailed
       \/ /\ pi.count < MaxCount
          /\ UNCHANGED <<outdir, written>>
          /\ WriteFailed
    /\ UNCHANGED <<config, indir, image_files, walk, file, calls, requests,
                   decisions, listing, run>>

-----------------------------------------------------------------------------
(* main *)

\* The truth value of config["seed"]: None and 0 are false.
Truthy(seed) == seed # None /\ seed[1] # 0

\* The seed check, then the dispatch on config["upscale"]. The input folder
\* exists (os.path.isdir holds), and so does the output folder after makedirs.
Main ==
    /\ pc = "main"
    /\ config' = IF Truthy(config.seed) /\ config.iterations # 1
                 THEN [config EXCEPT !.iterations = 1]
                 ELSE config
    /\ pc' = IF config.upscale THEN "pu_start" ELSE "pf_start"
    /\ UNCHANGED <<indir, outdir, image_files, walk, file, pi, calls, requests,
                   written, decisions, listing, run>>

-----------------------------------------------------------------------------
(* process_folder: standard mode *)

FolderExts ==
    { <<".", "j", "p", "g">>, <<".", "j", "p", "e", "g">>, <<".", "p", "n", "g">>,
      <<".", "g", "i", "f">>, <<".", "b", "m", "p">>, <<".", "t", "i", "f", "f">> }

\* The filter of the list comprehension over os.listdir(folder).
Accepted(e) ==
    /\ Head(e.name) # "."
    /\ Lower(SplitExt(e.name).ext) \in FolderExts
    /\ e.kind # "dir"

\* image_files.sort(): every path has the same folder part, so the names order them.
RECURSIVE SortNames(_)
SortNames(S) ==
    IF S = {} THEN << >>
    ELSE LET m == CHOOSE x \in S : \A y \in S \ {x} : StrLess(x, y)
         IN  <<m>> \o SortNames(S \ {m})

\* The listing, the filter and the sort; with no image the function returns.
PF_Start ==
    /\ pc = "pf_start"
    /\ LET names == {e.name : e \in {x \in indir : Accepted(x)}}
       IN  IF names = {}
           THEN pc' = "done" /\ UNCHANGED image_files
           ELSE pc' = "pf_loop" /\ image_files' = SortNames(names)
    /\ UNCHANGED <<config, indir, outdir, walk, file, pi, calls, requests, written,
                   decisions, listing, run>>

\* for image in image_files: process_image(image, iterations, output, seed, octree,
\* num_inference_steps, face_count, guidance_scale, endpoint_url). A call that does
\* not bind raises TypeError, which nothing catches: the program ends.
PF_Call ==
    /\ pc = "pf_loop"
    /\ IF image_files = << >>
       THEN pc' = "done" /\ UNCHANGED <<image_files, pi, calls>>
       ELSE IF FolderCallBinds
       THEN /\ pi' = Frame(Head(image_files), config.iterations, config.seed,
                           ConfigP, FALSE, "pf_loop")
            /\ calls' = Append(calls, CallRec(Head(image_files), config.iterations,
                                              config.seed, ConfigP, FALSE, << >>))
            /\ image_files' = Tail(image_files)
            /\ pc' = "pi_enter"
       ELSE pc' = "TypeError" /\ UNCHANGED <<image_files, pi, calls>>
    /\ UNCHANGED <<config, indir, outdir, walk, file, requests, written, decisions,
                   listing, run>>

-----------------------------------------------------------------------------
(* process_glb_upscaling: upscale mode *)

UpscaleExts ==
    { <<".", "j", "p", "g">>, <<".", "j", "p", "e", "g">>, <<".", "p", "n", "g">> }

\* Mutant of Adequate: the face count is compared as well.
AdequateAllFields(g, T) ==
    /\ StrToInt(g[2]) >= T.octree
    /\ StrToInt(g[3]) >= T.steps
    /\ StrToInt(g[4]) >= T.guidance
    /\ StrToInt(g[5]) >= T.face

\* int(file_octree) >= int(octree) and int(file_num_inference_steps) >=
\* int(num_inference_steps) and int(file_guidance) >= int(guidance_scale),
\* on the groups g of the file name and the configured ParameterSet T.
Adequate(g, T) ==
    /\ StrToInt(g[2]) >= T.octree
    /\ StrToInt(g[3]) >= T.steps
    /\ StrToInt(g[4]) >= T.guidance

\* Mutant of Sources: the search accepts every extension process_folder accepts.
SourcesAnyImage(dir, base_name) ==
    {e \in dir : /\ Head(e.name) # "."
                 /\ SplitExt(e.name).root = base_name
                 /\ Lower(SplitExt(e.name).ext) \in FolderExts}

\* The entries of the input folder the search for the source image accepts.
Sources(dir, base_name) ==
    {e \in dir : /\ Head(e.name) # "."
                 /\ SplitExt(e.name).root = base_name
                 /\ Lower(SplitExt(e.name).ext) \in UpscaleExts}

\* for fname in os.listdir(input_folder): the first entry the search accepts
\* (there is one: the caller has found Sources not empty).
FirstSource(l, base_name) ==
    LET hits == {i \in 1..Len(l) : l[i] \in Sources({l[j] : j \in 1..Len(l)}, base_name)}
    IN  l[CHOOSE i \in hits : \A j \in hits : i <= j]

\* os.walk(output) lists the files of the folder once, before the first visit.
PU_Start ==
    /\ pc = "pu_start"
    /\ walk' = outdir
    /\ pc' = "pu_loop"
    /\ UNCHANGED <<config, indir, outdir, image_files, file, pi, calls, requests,
                   written, decisions, listing, run>>

Decided(f, what) == decisions' = decisions \cup {[file |-> f, what |-> what]}

\* One file of the walk, in the order os.walk yields them (any order): skipped, or
\* process_image called for the first source image os.listdir yields.
PU_Visit ==
    /\ pc = "pu_loop"
    /\ \E f \in walk :
          /\ walk' = walk \ {f}
          /\ LET g == RegexGroups(f)
             IN  IF ~EndsWith(f, GlbExt) \/ g = << >>
                 THEN Decided(f, "no_match")
                      /\ UNCHANGED <<pc, file, pi, calls>>
                 ELSE IF Adequate(g, ConfigP)
                 THEN Decided(f, "adequate")
                      /\ UNCHANGED <<pc, file, pi, calls>>
                 ELSE IF Sources(indir, g[1]) = {}
                 THEN Decided(f, "no_source")
                      /\ UNCHANGED <<pc, file, pi, calls>>
                 ELSE LET src == FirstSource(listing, g[1]) IN
                        IF UpscaleCallBinds
                        THEN /\ Decided(f, "upscale")
                             /\ file' = f
                             /\ pi' = Frame(src.name, 1, Some(StrToInt(g[6])),
                                            ConfigP, config.upscale, "pu_loop")
                             /\ calls' = Append(calls,
                                   CallRec(src.name, 1, Some(StrToInt(g[6])),
                                           ConfigP, config.upscale, f))
                             /\ pc' = "pi_enter"
                        ELSE /\ pc' = "TypeError"
                             /\ UNCHANGED <<file, pi, calls, decisions>>
    /\ UNCHANGED <<config, indir, outdir, image_files, requests, written, listing,
                   run>>

\* The walk is over.
PU_Done ==
    /\ pc = "pu_loop"
    /\ walk = {}
    /\ pc' = "done"
    /\ UNCHANGED <<config, indir, outdir, image_files, walk, file, pi, calls,
                   requests, written, decisions, listing, run>>

-----------------------------------------------------------------------------
(* Specifications *)

\* The configurations load_config may return: MaxIter iterations (more than
\* one, so that the seed check of main has something to coerce).
Configs ==
    { [iterations |-> n, seed |-> sd, octree_resolution |-> T.octree,
       num_inference_steps |-> T.steps, guidance_scale |-> T.guidance,
       face_count |-> T.face, upscale |-> u] :
      n \in {MaxIter}, sd \in ConfigSeeds, T \in TargetPs, u \in BOOLEAN }

\* The program, from the first statement of main after load_config.
Init ==
    /\ pc = "main"
    /\ config \in Configs
    /\ listing \in InListings
    /\ indir = {listing[i] : i \in 1..Len(listing)}
    /\ outdir \in OutDirs
    /\ image_files = << >>
    /\ walk = {}
    /\ file = << >>
    /\ pi = NoFrame
    /\ calls = << >>
    /\ requests = {}
    /\ written = {}
    /\ decisions = {}
    /\ run = RunRec(1, config, outdir, {})

Next ==
    \/ Main
    \/ PF_Start
    \/ PF_Call
    \/ PU_Start
    \/ PU_Visit
    \/ PU_Done
    \/ PI_Enter
    \/ PI_Cond
    \/ PI_Attempt
    \/ PI_Request
    \/ PI_Write

Spec == Init /\ [][Next]_vars

\* The program is started again when a run is over (main returned, or an
\* uncaught exception ended it): load_config returns the same configuration,
\* the folders are as the first run left them, and every local starts afresh.
Rerun ==
    /\ pc \in {"done", "TypeError"}
    /\ run.number = 1
    /\ run' = RunRec(2, run.config, outdir, {w.name : w \in written})
    /\ config' = run.config
    /\ pc' = "main"
    /\ image_files' = << >>
    /\ walk' = {}
    /\ file' = << >>
    /\ pi' = NoFrame
    /\ calls' = << >>
    /\ requests' = {}
    /\ written' = {}
    /\ decisions' = {}
    /\ UNCHANGED <<indir, outdir, listing>>

NextRerun ==
    \/ Next
    \/ Rerun

\* Two runs of the program in a row.
SpecRerun == Init /\ [][NextRerun]_vars

\* process_image alone, called with any arguments on any output folder.
InitPI ==
    /\ pc = "pi_enter"
    /\ \E im \in PIImages, n \in 0..MaxIter, sd \in ConfigSeeds, T \in PITargetPs,
          u \in BOOLEAN :
          /\ indir = im[2]
          /\ pi = Frame(im[1].name, n, sd, T, u, "done")
          /\ calls = <<CallRec(im[1].name, n, sd, T, u, << >>)>>
          /\ config = [iterations |-> n, seed |-> sd, octree_resolution |-> T.octree,
                       num_inference_steps |-> T.steps, guidance_scale |-> T.guidance,
                       face_count |-> T.face, upscale |-> u]
    /\ outdir \in PIOutDirs
    /\ image_files = << >>
    /\ walk = {}
    /\ file = << >>
    /\ requests = {}
    /\ written = {}
    /\ decisions = {}
    /\ listing \in Listings(indir)
    /\ run = RunRec(1, config, outdir, {})

NextPI ==
    \/ PI_Enter
    \/ PI_Cond
    \/ PI_Attempt
    \/ PI_Request
    \/ PI_Write

SpecPI == InitPI /\ [][NextPI]_vars

\* An attempt whose seed is unused: its candidate name does not exist.
FreshAttempt == PI_Attempt /\ pc' = "pi_request"

\* A request that is answered with a response.
RequestSucceeds == PI_Request /\ pc' = "pi_write"

\* A write that completes.
WriteSucceeds == PI_Write /\ \E w \in written' \ written : w.complete

\* The calls of process_image without fixed seed: a plain source name, one
\* with a character class, an unreadable one; at most one file in the folder.
InitPIFair ==
    /\ pc = "pi_enter"
    /\ \E im \in {PngA, PngCls, LockedA9}, n \in 0..MaxIter, T \in PITargetPs,
          u \in BOOLEAN :
          /\ indir = {im}
          /\ pi = Frame(im.name, n, None, T, u, "done")
          /\ calls = <<CallRec(im.name, n, None, T, u, << >>)>>
          /\ config = [iterations |-> n, seed |-> None, octree_resolution |-> T.octree,
                       num_inference_steps |-> T.steps, guidance_scale |-> T.guidance,
                       face_count |-> T.face, upscale |-> u]
    /\ outdir \in {d \in PIOutDirs : Cardinality(d) <= 1}
    /\ image_files = << >>
    /\ walk = {}
    /\ file = << >>
    /\ requests = {}
    /\ written = {}
    /\ decisions = {}
    /\ listing \in Listings(indir)
    /\ run = RunRec(1, config, outdir, {})

\* process_image alone, running on (a sequential program takes its next step),
\* where an attempt that is tried again and again eventually draws an unused
\* seed, gets a response, and writes its file.
SpecPIFair ==
    /\ InitPIFair
    /\ [][NextPI]_vars
    /\ WF_vars(NextPI)
    /\ SF_vars(FreshAttempt)
    /\ SF_vars(RequestSucceeds)
    /\ SF_vars(WriteSucceeds)

-----------------------------------------------------------------------------
(* Properties *)

\* The run is over: main returned, or an uncaught exception ended it.
Terminated == pc \in {"done", "TypeError"}

\* The names process_folder accepts whose file can be read.
ReadableImages == {e.name : e \in {x \in indir : Accepted(x) /\ x.kind = "file"}}

\* The names of the files the run has opened for writing.
WrittenNames == {w.name : w \in written}

\* The groups of an artifact name as the integers and the base name they stand for.
Parsed(g) ==
    [base_name |-> g[1],
     P |-> PS(StrToInt(g[2]), StrToInt(g[3]), StrToInt(g[4]), StrToInt(g[5])),
     seed |-> StrToInt(g[6])]

\* C1 (as claimed): when a standard-mode run without fixed seed is over, every
\* source image none of whose matching artifacts predates the run has exactly
\* config.iterations matching artifacts, with pairwise different seeds.
C1_StandardRunYieldsN ==
    (Terminated /\ ~config.upscale /\ config.seed = None) =>
        \A nm \in ReadableImages :
            LET m == Glob(outdir, BuildPattern(SplitExt(nm).root, ConfigP))
            IN  (m \subseteq WrittenNames) =>
                    /\ Cardinality(m) = config.iterations
                    /\ \A f1, f2 \in m :
                          f1 # f2 => RegexGroups(f1)[6] # RegexGroups(f2)[6]

\* C2: a step of process_image's entry taken when at least pi.iterations files
\* match the pattern returns to the caller, issues no request and writes no file.
C2_EarlyExit ==
    [][(/\ pc = "pi_enter"
        /\ Cardinality(Glob(outdir, BuildPattern(SplitExt(pi.image_path).root, pi.P)))
               >= pi.iterations)
       => (/\ pc' = pi.ret
           /\ requests' = requests
           /\ written' = written
           /\ outdir' = outdir)]_vars

\* C2 witness: a standard-mode call for two iterations has returned from its
\* entry, two files match its pattern, and nothing was requested or written.
C2_Witness ==
    /\ pc = "done"
    /\ Len(calls) = 1
    /\ ~calls[1].upscale
    /\ calls[1].iterations = 2
    /\ calls[1].entry = "enough"
    /\ Cardinality(Glob(outdir, BuildPattern(SplitExt(calls[1].image_path).root,
                                             calls[1].P))) >= 2
    /\ requests = {}
    /\ written = {}

\* C3 (as claimed): when a standard-mode run is over, process_image has been
\* entered once per accepted image, in sorted order, with the configured
\* iterations and seed and upscale = False.
C3_OncePerImage ==
    (Terminated /\ ~config.upscale) =>
        LET images == SortNames({e.name : e \in {x \in indir : Accepted(x)}})
        IN  /\ Len(calls) = Len(images)
            /\ \A i \in 1..Len(calls) :
                  /\ calls[i].image_path = images[i]
                  /\ calls[i].iterations = config.iterations
                  /\ calls[i].seed = config.seed
                  /\ calls[i].upscale = FALSE
                  /\ calls[i].entry # "called"

\* C4 (as claimed): once main has passed its seed check, a configured fixed seed
\* (0 included) goes with an iteration count of 1.
C4_FixedSeedForcesOne ==
    (pc # "main" /\ config.seed # None) => config.iterations = 1

\* C5: a parsed artifact is skipped as adequate exactly when its octree
\* resolution, inference steps and guidance scale are each at least the target's
\* (the face counts play no part), and a skipped artifact starts no process_image.
C5_SkipIff ==
    \A d \in decisions :
        LET g == RegexGroups(d.file)
            have == Parsed(g).P
        IN  g # << >> =>
              /\ (d.what = "adequate") <=>
                     (/\ have.octree >= config.octree_resolution
                      /\ have.steps >= config.num_inference_steps
                      /\ have.guidance >= config.guidance_scale)
              /\ (d.what = "adequate") =>
                     /\ \A k \in 1..Len(calls) : calls[k].file # d.file
                     /\ file # d.file

\* C5 witness: an artifact with a smaller face count than the target's was
\* skipped as adequate, and another artifact was not skipped.
C5_Witness ==
    /\ \E d \in decisions :
          /\ d.what = "adequate"
          /\ Parsed(RegexGroups(d.file)).P.face < config.face_count
    /\ \E d \in decisions : d.what = "upscale"

\* C6: in an upscale run every request carries the configured ParameterSet and
\* the seed parsed from the artifact that started the call, and every file
\* written is named after that artifact's base name, the configured ParameterSet
\* and that seed.
C6_UpscaleReusesSeed ==
    config.upscale =>
        /\ \A r \in requests :
              /\ r.P = ConfigP
              /\ r.seed = Parsed(RegexGroups(calls[r.call].file)).seed
        /\ \A w \in written :
              LET from == Parsed(RegexGroups(calls[w.call].file))
              IN  w.name = BuildName(from.base_name, ConfigP, from.seed)

\* C6 witness: an upscale run has written an artifact for an artifact whose seed
\* is not the first value a random draw could give.
C6_Witness ==
    /\ config.upscale
    /\ pc = "done"
    /\ \E w \in written : Parsed(RegexGroups(calls[w.call].file)).seed = 7
    /\ requests # {}

\* C7: no file is opened for writing under a name the output folder already
\* holds, and no name is written twice.
C7_NoOverwrite ==
    /\ \A w \in written : ~w.existed
    /\ \A w1, w2 \in written : w1.name = w2.name => w1 = w2

\* C7 witness: the call has written two files next to a file that was there
\* before, after an attempt skipped for an existing name.
C7_Witness ==
    /\ Cardinality(written) = 2
    /\ \E f \in outdir : f \notin WrittenNames
    /\ pc = "pi_cond"
    /\ pi.out_filename \in outdir
    /\ \A w \in written : w.name # pi.out_filename

\* C8: a failed request changes neither the output folder nor count nor any other
\* local, does not end process_image, and leads to the loop condition, which
\* still holds, so that another attempt follows.
C8_FailedRequestRetries ==
    [][(pc = "pi_request" /\ pc' # "pi_write")
       => (/\ pc' = "pi_cond"
           /\ outdir' = outdir
           /\ written' = written
           /\ pi'.count = pi.count
           /\ pi' = pi
           /\ Condition(pi'.upscale, Matches(outdir', pi'.base_name, pi'.P),
                        pi'.iterations))]_vars

\* C8 witness: the loop is back at its condition after a request that failed
\* (the request is in the history, its file is not there, count is still 0).
C8_Witness ==
    /\ pc = "pi_cond"
    /\ pi.seed_current # None
    /\ pi.count = 0
    /\ \E r \in requests : r.call = Len(calls) /\ r.seed = pi.seed_current[1]
    /\ pi.out_filename \notin outdir

\* C9 (as claimed): the name process_image builds for (base_name, P,
\* seed_current) parses back to exactly these.
C9_RoundTrip ==
    pc = "pi_request" =>
        LET g == RegexGroups(pi.out_filename)
        IN  /\ g # << >>
            /\ Parsed(g) = [base_name |-> pi.base_name, P |-> pi.P,
                            seed |-> pi.seed_current[1]]

\* C9, the part that holds: the round trip of a base name without line feed
\* (underscores, digit groups and brackets included).
C9_RoundTripSingleLine ==
    (pc = "pi_request" /\ \A i \in 1..Len(pi.base_name) : pi.base_name[i] # LF) =>
        LET g == RegexGroups(pi.out_filename)
        IN  /\ g # << >>
            /\ Parsed(g) = [base_name |-> pi.base_name, P |-> pi.P,
                            seed |-> pi.seed_current[1]]

\* C10 (as claimed): every file the glob pattern of a call counts parses to the
\* base name and the ParameterSet of the call.
C10_NoFalsePositive ==
    (pc = "pi_enter" /\ Readable(indir, pi.image_path)) =>
        \A f \in Glob(outdir, BuildPattern(SplitExt(pi.image_path).root, pi.P)) :
            LET g == RegexGroups(f)
            IN  /\ g # << >>
                /\ Parsed(g).base_name = SplitExt(pi.image_path).root
                /\ Parsed(g).P = pi.P

\* The seeds of a call without fixed seed: the seed of the attempt under way,
\* the seeds sent in requests, and the seeds the written names were built from.
SeedsInUse(lo, hi) ==
    /\ pi.seed_current # None => (lo <= pi.seed_current[1] /\ pi.seed_current[1] <= hi)
    /\ \A r \in requests : lo <= r.seed /\ r.seed <= hi
    /\ \A w \in written :
          LET base_name == SplitExt(calls[w.call].image_path).root
              lead == Len(NamePrefix(base_name, calls[w.call].P))
              field == SubSeq(w.name, lead + 1, Len(w.name) - Len(GlbExt))
          IN  /\ AllDigits(field)
              /\ w.name = BuildName(base_name, calls[w.call].P, StrToInt(field))
              /\ lo <= StrToInt(field) /\ StrToInt(field) <= hi

FixedSeedCollision ==
    /\ pc \in {"pi_cond", "pi_attempt"}
    /\ pi.seed # None
    /\ Condition(pi.upscale, Matches(outdir, pi.base_name, pi.P), pi.iterations)
    /\ BuildName(pi.base_name, pi.P, pi.seed[1]) \in outdir

\* C12: from a fixed-seed collision on, every step of process_image stays in the
\* loop with the collision still there (the attempt takes the skip branch back
\* to the condition), issues no request and writes no file: the call never returns.
C12_FixedSeedSkipLoop ==
    [][FixedSeedCollision =>
          /\ FixedSeedCollision'
          /\ pc = "pi_attempt" => pc' = "pi_cond"
          /\ pc = "pi_cond" => pc' = "pi_attempt"
          /\ requests' = requests
          /\ written' = written
          /\ outdir' = outdir]_vars

\* C12 witness: the loop of a fixed-seed call is back at its condition after a
\* skipped attempt, with the collision still there and nothing requested.
C12_Witness ==
    /\ FixedSeedCollision
    /\ pc = "pi_cond"
    /\ pi.seed_current = pi.seed
    /\ pi.out_filename = BuildName(pi.base_name, pi.P, pi.seed[1])
    /\ requests = {}
    /\ written = {}

\* A step of the write in which open() or write() raised.
WriteFailure ==
    /\ pc = "pi_write"
    /\ \A w \in written' \ written : ~w.complete

BadImage(path) == ~IsFile(indir, path) \/ ~Readable(indir, path)

\* C14, the part on process_image: an invocation for a missing or unreadable
\* image has returned from its entry checks, with no request and no file of its own.
C14_BadImageEndsCall ==
    \A k \in 1..Len(calls) :
        (BadImage(calls[k].image_path) /\ calls[k].entry # "called") =>
            /\ calls[k].entry \in {"not_a_file", "read_error"}
            /\ \A r \in requests : r.call # k
            /\ \A w \in written : w.call # k

\* C14 (as claimed): a missing or unreadable source image aborts only that
\* image: its invocation returns with no request and no file, and a run that
\* met such an image ends normally, after an invocation for every accepted image
\* (standard mode) or a visit of every artifact (upscale mode).
C14_BadImageAbortsOnlyImage ==
    /\ C14_BadImageEndsCall
    /\ (/\ Terminated
        /\ ~config.upscale
        /\ \E e \in indir : Accepted(e) /\ BadImage(e.name)) =>
            /\ pc = "done"
            /\ Len(calls) = Cardinality({e.name : e \in {x \in indir : Accepted(x)}})
            /\ \A k \in 1..Len(calls) : calls[k].entry # "called"
    /\ (/\ Terminated
        /\ config.upscale
        /\ \E k \in 1..Len(calls) : BadImage(calls[k].image_path)) =>
            /\ pc = "done"
            /\ walk = {}

\* The name f does not parse, or no entry of the input folder has the parsed
\* base name and an extension of jpg, jpeg, png (any letter case).
ParseSkip(f) ==
    \/ RegexGroups(f) = << >>
    \/ \A e \in indir :
          \/ SplitExt(e.name).root # RegexGroups(f)[1]
          \/ Lower(SplitExt(e.name).ext) \notin
                 { <<".", "j", "p", "g">>, <<".", "j", "p", "e", "g">>,
                   <<".", "p", "n", "g">> }

\* C15: the visit of a file that does not parse or has no source image starts
\* no process_image and raises nothing: the scan stays in its loop, with the
\* invocations, the requests and the output folder as they were.
C15_ParseSkipGoesOn ==
    [][\A f \in walk :
          (pc = "pu_loop" /\ f \notin walk' /\ ParseSkip(f)) =>
              /\ pc' = "pu_loop"
              /\ walk' = walk \ {f}
              /\ calls' = calls
              /\ pi' = pi
              /\ requests' = requests
              /\ written' = written
              /\ outdir' = outdir]_vars

\* C15 witness: the scan is over; it skipped one file that does not parse and
\* one under-target artifact whose only namesake in the input folder is a .gif.
C15_Witness ==
    /\ pc = "done"
    /\ config.upscale
    /\ calls = << >>
    /\ \E d \in decisions : d.what = "no_match" /\ EndsWith(d.file, GlbExt)
    /\ \E d \in decisions :
          /\ d.what = "no_source"
          /\ \E e \in indir : SplitExt(e.name).root = RegexGroups(d.file)[1]

\* C16 (as claimed): a call of process_image without fixed seed eventually
\* returns, and when it returns from its loop the files matching its pattern
\* number at least one (upscale mode) or at least iterations (standard mode).
C16_LoopTerminates ==
    /\ calls[1].seed = None => <>(pc = "done")
    /\ [](pc = "done" /\ calls[1].entry = "loop" =>
             LET n == Matches(outdir, SplitExt(calls[1].image_path).root, calls[1].P)
             IN  IF calls[1].upscale THEN n >= 1 ELSE n >= calls[1].iterations)

\* C16, the part that holds: the same for a source name without "[".
C16_PlainNameLoopTerminates ==
    /\ (calls[1].seed = None /\ \A i \in 1..Len(calls[1].image_path) :
                                     calls[1].image_path[i] # "[")
           => <>(pc = "done")
    /\ [](pc = "done" /\ calls[1].entry = "loop" =>
             LET n == Matches(outdir, SplitExt(calls[1].image_path).root, calls[1].P)
             IN  IF calls[1].upscale THEN n >= 1 ELSE n >= calls[1].iterations)

Max(a, b) == IF a >= b THEN a ELSE b

\* For the call of process_image under way or over, with k the number of files
\* matching its pattern before the call: at most max(k, iterations) files match,
\* the call has created at most max(0, iterations - k) files, and a request is
\* only sent after a count below iterations.
NoOvershoot ==
    LET base_name == SplitExt(calls[1].image_path).root
        N == calls[1].iterations
        k == Matches(outdir \ WrittenNames, base_name, calls[1].P)
    IN  /\ Matches(outdir, base_name, calls[1].P) <= Max(k, N)
        /\ Cardinality(WrittenNames) <= Max(0, N - k)
        /\ pc \in {"pi_attempt", "pi_request"} =>
               Matches(outdir, base_name, calls[1].P) < N

\* C17 (as claimed): no overshoot in a standard-mode call of process_image.
C17_NoOvershoot ==
    ~calls[1].upscale => NoOvershoot

\* C17, the part that holds: no overshoot for a source name without "[".
C17_PlainNameNoOvershoot ==
    (/\ ~calls[1].upscale
     /\ \A i \in 1..Len(calls[1].image_path) : calls[1].image_path[i] # "[")
        => NoOvershoot

\* The loop of a call with iterations 1 is at an attempt (its condition held)
\* and no candidate name the attempt may build exists.
CandidateIsNew ==
    (pc = "pi_attempt" /\ pi.iterations = 1) =>
        \A s \in SeedChoices(pi.seed) : BuildName(pi.base_name, pi.P, s) \notin outdir

\* C18 (as claimed): in a call of process_image with iterations 1, whenever the
\* condition held the candidate name does not exist: the skip branch is never taken.
C18_SkipUnreachable ==
    CandidateIsNew

\* C18, the part that holds: the same for a source name without "[".
C18_PlainNameSkipUnreachable ==
    (\A i \in 1..Len(pi.base_name) : pi.base_name[i] # "[") => CandidateIsNew

\* The base name of the source image of invocation k.
CallBase(k) == SplitExt(calls[k].image_path).root

\* The files of the folder that parse to the base name and the ParameterSet.
ArtifactsOf(dir, base_name, P) ==
    {f \in dir : /\ RegexGroups(f) # << >>
                 /\ Parsed(RegexGroups(f)).base_name = base_name
                 /\ Parsed(RegexGroups(f)).P = P}

C20_RerunIdempotent ==
    run.number = 2 =>
        /\ requests = {}
        /\ written = {}
        /\ outdir = run.outdir
        /\ \A k \in 1..Len(calls) :
               calls[k].entry \in {"called", "enough", "not_a_file", "read_error"}
        /\ pc \notin {"pi_cond", "pi_attempt", "pi_request", "pi_write"}

\* C20 witness: the second run of an upscale batch is over; the first run wrote
\* at least one artifact, and the second one visited it, and started an
\* invocation for an under-target artifact that returned at once.
C20_Witness ==
    /\ run.number = 2
    /\ pc = "done"
    /\ config.upscale
    /\ run.before # {}
    /\ \A f \in run.before : \E d \in decisions : d.file = f /\ d.what = "adequate"
    /\ \E k \in 1..Len(calls) : calls[k].entry = "enough"

=============================================================================
